---- MODULE Spec2Model ----
(***************************************************************************)
(* Model of soy-rs: the tree builder (src/src/parser.rs), the template     *)
(* registry and the renderer (src/src/tofu.rs).                            *)
(*                                                                         *)
(* Text is a sequence of one-character strings; the output sink of a       *)
(* render call is the sequence of bytes written to it so far.              *)
(***************************************************************************)
EXTENDS Integers, Sequences, FiniteSets, TLC

\* ------------------------------------------------------------------ bounds
MaxBody == 4          \* tokens in the body of a template (SpecJoin)
MaxTemplates == 2     \* templates declared in one source unit (Spec)
NumCalls == 2         \* render calls sharing the registry (Spec)
MaxOps == 3           \* operators in a chain of binary operators (SpecExpr)
MaxTernaryOps == 1    \* operators in each part of a ternary (SpecExpr)
MaxChain == 2         \* steps in a reference chain (SpecExpr)
MaxConcBody == 3      \* tokens in the body of a template (SpecConc)
MaxParams == 3        \* param lines of a soydoc block (SpecParse)
MaxEntries == 3       \* entries of a map literal (SpecParse)
MaxDirectives == 2    \* directives of a print statement (SpecParse)
MaxEvalBody == 2      \* tokens in the body of a template (SpecEval)

Calls == 1..NumCalls

\* ------------------------------------------------------------ text helpers
Space == <<" ">>
Dot == <<".">>

IsPrefix(p, s) == Len(p) <= Len(s) /\ SubSeq(s, 1, Len(p)) = p
IsSuffix(p, s) == Len(p) <= Len(s) /\ SubSeq(s, Len(s) - Len(p) + 1, Len(s)) = p

RECURSIVE SeqsUpTo(_, _)
SeqsUpTo(S, n) ==
    IF n = 0 THEN {<< >>}
    ELSE LET shorter == SeqsUpTo(S, n - 1)
         IN  shorter \cup {Append(s, x) : s \in shorter, x \in S}

\* --------------------------------------------------------------- the input
\* A source text, as the token stream of each template body plus the
\* declarations around it.  Comment text uses a character ("x") that no raw
\* text holds.
NamespaceName == <<"n", "s">>
TemplateNames == {<<"t">>, <<"u">>}
ParamNames == {<<"p">>}

RawTextTok(s) == [rule |-> "raw_text", str |-> s]
LinebreakTok == [rule |-> "linebreak", str |-> <<"\n">>]
InnerCommentTok == [rule |-> "inner_comment", str |-> <<"/", "/", "x">>]
MultilineCommentTok == [rule |-> "multiline_comment", str |-> <<"/", "*", "x", "*", "/">>]
SpecialTok(s) == [rule |-> "special", str |-> s]

\* Decimal digits, and i64::MAX and usize::MAX (64-bit) in decimal digits.
I64Max == <<"9", "2", "2", "3", "3", "7", "2", "0", "3", "6", "8", "5", "4", "7", "7", "5",
            "8", "0", "7">>
UsizeMax == <<"1", "8", "4", "4", "6", "7", "4", "4", "0", "7", "3", "7", "0", "9", "5", "5",
              "1", "6", "1", "5">>
DigitChars == <<"0", "1", "2", "3", "4", "5", "6", "7", "8", "9">>

\* Expression pairs of the concrete parse tree.
IntegerPair(digits) == [rule |-> "integer", str |-> digits]
NamePair(s) == [rule |-> "name", str |-> s]
StringPair(s) ==
    [rule |-> "string",
     inner |-> <<[rule |-> "quoted_string", inner |-> <<[rule |-> "string_body", str |-> s]>>]>>]
WholeNumberPair(digits) == [rule |-> "whole_number", str |-> digits]
ReferenceKeyPair(key) == [rule |-> "reference_key", inner |-> <<key>>]
StepPair(rule, p) == [rule |-> rule, inner |-> <<p>>]
ReferentPair(rule, n) == [rule |-> rule, inner |-> <<NamePair(n)>>]
ReferencePair(referent, steps) == [rule |-> "reference", inner |-> <<referent>> \o steps]
OperatorPair(rule) == [rule |-> rule, inner |-> << >>]
OperationPair(flat) == [rule |-> "operation", inner |-> flat]
TernaryPair(c, a, b) == [rule |-> "ternary_operation", inner |-> <<c, a, b>>]
ExpressionPair(p) == [rule |-> "expression", inner |-> <<p>>]
VariablePair(n) == ReferencePair(ReferentPair("variable", n), << >>)
BooleanPair(s) == [rule |-> "boolean", str |-> s]
MapEntryPair(k, v) ==
    [rule |-> "map_entry",
     inner |-> <<[rule |-> "map_key", inner |-> <<StringPair(k)>>],
                 [rule |-> "map_value", inner |-> <<v>>]>>]
MapLiteralPair(entries) == [rule |-> "map_literal", inner |-> entries]

\* Statement pairs.  A print statement is its open tag ({ or {print), its
\* expression and its directives; a directive is its name and, when it has
\* any, its arguments.
OpenTagPair(s) == [rule |-> "print_open", str |-> s]
ImplicitTag == <<"{">>
PrintTag == <<"{", "p", "r", "i", "n", "t", " ">>
DirectiveArgsPair(args) == [rule |-> "directive_arguments", inner |-> args]
DirectivePair(n, args) ==
    [rule |-> "directive",
     inner |-> IF args = << >> THEN <<NamePair(n)>> ELSE <<NamePair(n), DirectiveArgsPair(args)>>]
DirectivesPair(ds) == [rule |-> "directives", inner |-> ds]
PrintStatementPair(tag, e, ds) ==
    [rule |-> "print_statement", inner |-> <<OpenTagPair(tag), e, DirectivesPair(ds)>>]
StatementTok(p) == [rule |-> "statement", str |-> << >>, inner |-> p]
PrintTok(e) == StatementTok(PrintStatementPair(ImplicitTag, e, << >>))

\* A msg statement is its tag, its attributes and its body: a template block
\* or a plural.
BlockPair(items) == [rule |-> "template_block", inner |-> items]
PluralCasePair(e, items) == [rule |-> "plural_case", inner |-> <<ExpressionPair(e), BlockPair(items)>>]
PluralDefaultPair(items) == [rule |-> "plural_default", inner |-> <<BlockPair(items)>>]
MsgPluralPair(e, cases, default) ==
    [rule |-> "msg_plural", inner |-> <<ExpressionPair(e)>> \o cases \o <<default>>]
MsgStatementPair(body) ==
    [rule |-> "msg_statement",
     inner |-> <<[rule |-> "msg_open", str |-> <<"{", "m", "s", "g">>],
                 [rule |-> "attributes", inner |-> << >>],
                 body>>]
MsgTok == StatementTok(MsgStatementPair(BlockPair(<< >>)))

Separators == {"linebreak", "inner_comment", "multiline_comment"}


\* Token streams of a template body.  Two raw-text spans are never adjacent:
\* the grammar reads adjacent text as one span.
RawTexts == {<<"a">>, <<"b", "c">>}
JoinTokens == {RawTextTok(s) : s \in RawTexts}
              \cup {LinebreakTok, InnerCommentTok, MultilineCommentTok,
                    PrintTok(VariablePair(<<"p">>)), SpecialTok(Space)}
RegistryBodies == {<<RawTextTok(<<"a">>)>>, <<PrintTok(VariablePair(<<"p">>))>>, <<MsgTok>>}

NoAdjacentText(toks) ==
    \A i \in 1..(Len(toks) - 1) :
        ~(toks[i].rule = "raw_text" /\ toks[i + 1].rule = "raw_text")

\* One @param or @param? line of a soydoc block.
SoydocTok(n, req) ==
    [rule |-> "soydoc_param",
     inner |-> <<[rule |-> IF req THEN "soydoc_required" ELSE "soydoc_optional", str |-> << >>],
                 NamePair(n)>>]
TemplateSrc(n, doc, toks) == [name |-> n, soydoc |-> doc, body |-> toks]
SourceText(ok, tmpls) == [valid |-> ok, namespace |-> NamespaceName, templates |-> tmpls]

\* Sources of Spec: up to MaxTemplates small templates, or a text the grammar
\* rejects.
RegistryTemplates ==
    {TemplateSrc(n, doc, b) :
        n \in TemplateNames,
        doc \in {<< >>, <<SoydocTok(<<"p">>, TRUE)>>},
        b \in RegistryBodies}
RegistrySources ==
    {SourceText(TRUE, ts) : ts \in SeqsUpTo(RegistryTemplates, MaxTemplates)}
    \cup {SourceText(FALSE, << >>)}

\* Sources of SpecJoin: one template whose body is any token stream of up to
\* MaxBody tokens.
JoinSources ==
    {SourceText(TRUE, <<TemplateSrc(<<"t">>, <<SoydocTok(<<"p">>, TRUE)>>, toks)>>) :
        toks \in {b \in SeqsUpTo(JoinTokens, MaxBody) : NoAdjacentText(b)}}

\* Sources of SpecConc: one template whose body is a token stream of up to
\* MaxConcBody tokens, rendered by every call.
ConcTokens == {RawTextTok(<<"a">>), RawTextTok(<<"b", "c">>), LinebreakTok,
               PrintTok(VariablePair(<<"p">>))}
ConcSources ==
    {SourceText(TRUE, <<TemplateSrc(<<"t">>, <<SoydocTok(<<"p">>, TRUE)>>, toks)>>) :
        toks \in {b \in SeqsUpTo(ConcTokens, MaxConcBody) : NoAdjacentText(b)}}

\* Sources of SpecExpr: one template whose body is one print statement.  The
\* expression is a flat chain of up to MaxOps binary operators, a ternary
\* whose three parts are chains of up to MaxTernaryOps operators, a reference
\* with up to MaxChain chained steps, an integer literal or numeric key at
\* the edge of its range, or one of the expressions of test_expressions.
OpRules == {"op_minus", "op_plus", "op_times", "op_divide", "op_modulo", "op_less", "op_le",
            "op_greater", "op_ge", "op_equals", "op_ne", "op_and", "op_or", "op_elvis"}
TernaryOpRules == {"op_times", "op_plus", "op_less"}
OperandPair(i) == IntegerPair(<<DigitChars[i + 1]>>)

\* The chain  operand (op operand)*  with operands numbered from base + 1.
ChainPair(ops, base) ==
    IF ops = << >> THEN OperandPair(base + 1)
    ELSE OperationPair([j \in 1..(2 * Len(ops) + 1) |->
                           IF j % 2 = 1 THEN OperandPair(base + (j + 1) \div 2)
                           ELSE OperatorPair(ops[j \div 2])])

ChainSources == {ChainPair(ops, 0) : ops \in SeqsUpTo(OpRules, MaxOps) \ {<< >>}}

TernarySources ==
    {TernaryPair(ChainPair(c, 0), ChainPair(a, 3), ChainPair(b, 6)) :
        c \in SeqsUpTo(TernaryOpRules, MaxTernaryOps),
        a \in SeqsUpTo(TernaryOpRules, MaxTernaryOps),
        b \in SeqsUpTo(TernaryOpRules, MaxTernaryOps)}

StepSources ==
    {StepPair("dotted_reference", ReferenceKeyPair(NamePair(<<"k">>))),
     StepPair("dotted_reference", ReferenceKeyPair(WholeNumberPair(<<"0">>))),
     StepPair("question_dotted_reference", ReferenceKeyPair(NamePair(<<"k">>))),
     StepPair("bracketed_reference", ExpressionPair(IntegerPair(<<"1">>))),
     StepPair("question_bracketed_reference", ExpressionPair(IntegerPair(<<"1">>)))}

ReferenceSources ==
    {ReferencePair(ReferentPair(r, <<"f">>), steps) :
        r \in {"variable", "injected_data"}, steps \in SeqsUpTo(StepSources, MaxChain)}

\* 2^63 - 1 and 2^63 as integer literals; 2^64 - 1 and 2^64 as numeric keys.
I64Over == [I64Max EXCEPT ![19] = "8"]
UsizeOver == [UsizeMax EXCEPT ![20] = "6"]
RangeSources ==
    {IntegerPair(I64Max), IntegerPair(I64Over)}
    \cup {ReferencePair(ReferentPair("variable", <<"f">>),
                        <<StepPair("dotted_reference", ReferenceKeyPair(WholeNumberPair(d)))>>) :
            d \in {UsizeMax, UsizeOver}}

\* 5 * (4 - 3 / 1) * 2
ParenthesesExample ==
    OperationPair(<<IntegerPair(<<"5">>), OperatorPair("op_times"),
                    ExpressionPair(OperationPair(<<IntegerPair(<<"4">>), OperatorPair("op_minus"),
                                                   IntegerPair(<<"3">>), OperatorPair("op_divide"),
                                                   IntegerPair(<<"1">>)>>)),
                    OperatorPair("op_times"), IntegerPair(<<"2">>)>>)

\* 5 * $foo < 27 ? 'foo' : $baz + 'bar'
TernaryExample ==
    TernaryPair(OperationPair(<<IntegerPair(<<"5">>), OperatorPair("op_times"),
                                VariablePair(<<"f", "o", "o">>), OperatorPair("op_less"),
                                IntegerPair(<<"2", "7">>)>>),
                StringPair(<<"f", "o", "o">>),
                OperationPair(<<VariablePair(<<"b", "a", "z">>), OperatorPair("op_plus"),
                                StringPair(<<"b", "a", "r">>)>>))

\* $ij.foo[3 * $baz]?.bar
ReferenceExample ==
    ReferencePair(
        ReferentPair("injected_data", <<"f", "o", "o">>),
        <<StepPair("bracketed_reference",
                   ExpressionPair(OperationPair(<<IntegerPair(<<"3">>), OperatorPair("op_times"),
                                                  VariablePair(<<"b", "a", "z">>)>>))),
          StepPair("question_dotted_reference", ReferenceKeyPair(NamePair(<<"b", "a", "r">>)))>>)

ExprPairs ==
    ChainSources \cup TernarySources \cup ReferenceSources \cup RangeSources
    \cup {ParenthesesExample, TernaryExample, ReferenceExample}

ExprSources ==
    {SourceText(TRUE, <<TemplateSrc(<<"t">>, << >>, <<PrintTok(ExpressionPair(e))>>)>>) :
        e \in ExprPairs}

\* Sources of SpecParse: one template that has a soydoc block of up to
\* MaxParams param lines and an empty body, or whose body is one print
\* statement: of a map literal of up to MaxEntries entries, or with either
\* open tag and up to MaxDirectives directives.
SoydocParams == {SoydocTok(n, req) : n \in {<<"p">>, <<"q">>}, req \in BOOLEAN}
DocSources ==
    {SourceText(TRUE, <<TemplateSrc(<<"t">>, doc, << >>)>>) :
        doc \in SeqsUpTo(SoydocParams, MaxParams)}

MapEntries ==
    {MapEntryPair(k, IntegerPair(v)) : k \in {<<"k">>, <<"m">>}, v \in {<<"1">>, <<"2">>}}
MapSources ==
    {SourceText(TRUE, <<TemplateSrc(<<"t">>, << >>,
                                    <<PrintTok(ExpressionPair(MapLiteralPair(es)))>>)>>) :
        es \in SeqsUpTo(MapEntries, MaxEntries)}

DirectiveArgs ==
    {<< >>, <<IntegerPair(<<"8">>)>>,
     <<IntegerPair(<<"8">>), BooleanPair(<<"f", "a", "l", "s", "e">>)>>,
     <<BooleanPair(<<"f", "a", "l", "s", "e">>), IntegerPair(<<"8">>)>>}
Directives == {DirectivePair(n, args) : n \in {<<"d">>, <<"e">>}, args \in DirectiveArgs}

\* {$foo.baz |changeNewlineToBr |truncate:8,false}
PrintExample ==
    PrintStatementPair(
        ImplicitTag,
        ExpressionPair(ReferencePair(
            ReferentPair("variable", <<"f", "o", "o">>),
            <<StepPair("dotted_reference", ReferenceKeyPair(NamePair(<<"b", "a", "z">>)))>>)),
        <<DirectivePair(<<"c", "h", "a", "n", "g", "e", "N", "e", "w", "l", "i", "n", "e",
                          "T", "o", "B", "r">>, << >>),
          DirectivePair(<<"t", "r", "u", "n", "c", "a", "t", "e">>,
                        <<IntegerPair(<<"8">>), BooleanPair(<<"f", "a", "l", "s", "e">>)>>)>>)

PrintStatements ==
    {PrintStatementPair(tag, ExpressionPair(VariablePair(<<"p">>)), ds) :
        tag \in {ImplicitTag, PrintTag}, ds \in SeqsUpTo(Directives, MaxDirectives)}
    \cup {PrintExample}
PrintSources ==
    {SourceText(TRUE, <<TemplateSrc(<<"t">>, << >>, <<StatementTok(st)>>)>>) :
        st \in PrintStatements}

\* Sources of SpecEval: one template whose body is up to MaxEvalBody tokens
\* out of raw text, prints of an integer literal and of references to data
\* that is not given, and plural messages on an integer literal or on such a reference.
TextItems(text) == <<<<RawTextTok(text)>>>>
PluralMsgTok(e) ==
    StatementTok(MsgStatementPair(
        MsgPluralPair(e,
                      <<PluralCasePair(IntegerPair(<<"1">>), TextItems(<<"o", "n", "e">>))>>,
                      PluralDefaultPair(TextItems(<<"m", "a", "n", "y">>)))))
ReferenceTok(rule) ==
    PrintTok(ExpressionPair(
        ReferencePair(ReferentPair("variable", <<"f">>),
                      <<StepPair(rule, ReferenceKeyPair(NamePair(<<"k">>)))>>)))
EvalTokens ==
    {RawTextTok(<<"a">>), PrintTok(ExpressionPair(IntegerPair(<<"5">>))),
     PluralMsgTok(IntegerPair(<<"1">>)), PluralMsgTok(IntegerPair(<<"5">>)),
     PluralMsgTok(ReferencePair(ReferentPair("variable", <<"n">>), << >>)),
     ReferenceTok("dotted_reference"), ReferenceTok("question_dotted_reference")}
EvalSources ==
    {SourceText(TRUE, <<TemplateSrc(<<"t">>, << >>, toks)>>) :
        toks \in {b \in SeqsUpTo(EvalTokens, MaxEvalBody) : NoAdjacentText(b)}}

ParseSources == DocSources \cup MapSources \cup PrintSources

\* ------------------------------------------------------------- the grammar
\* template_block groups the tokens of a body into items: a content token
\* (raw text, statement, special) with the run of line breaks and comments
\* that follows it; a run that precedes all content is an item of its own.
RECURSIVE template_items(_)
template_items(toks) ==
    IF toks = << >> THEN << >>
    ELSE LET before == template_items(SubSeq(toks, 1, Len(toks) - 1))
             tok == toks[Len(toks)]
         IN  IF tok.rule \in Separators /\ before # << >>
             THEN [before EXCEPT ![Len(before)] = Append(@, tok)]
             ELSE Append(before, <<tok>>)

template_block_pair(toks) == [rule |-> "template_block", inner |-> template_items(toks)]

template_pair(t) ==
    [rule |-> "template", soydoc |-> t.soydoc, template_name |-> t.name,
     template_block |-> template_block_pair(t.body)]

soy_file_pair(text) ==
    [rule |-> "soy_file", namespace |-> text.namespace,
     templates |-> [i \in 1..Len(text.templates) |-> template_pair(text.templates[i])]]

\* SoyParser::parse: the concrete parse tree, or the grammar's diagnostic.
SoyParser_parse(text) ==
    IF text.valid THEN [ok |-> TRUE, pair |-> soy_file_pair(text)]
    ELSE [ok |-> FALSE, pair |-> << >>]


\* -------------------------------------------------------- the tree builder
RawText(value, newline) == [type |-> "RawText", value |-> value, newline |-> newline]
Statement(command, newline) == [type |-> "Statement", command |-> command, newline |-> newline]
Special(literal) == [type |-> "Special", value |-> literal]
NoNode == [type |-> "None"]

\* HashMap: the empty map, and insert, which replaces the value of a key
\* that is present.
EmptyMap == << >>
Insert(map, key, value) ==
    [k \in (DOMAIN map) \cup {key} |-> IF k = key THEN value ELSE map[k]]

Integer(value) == [type |-> "Integer", value |-> value]
Boolean(value) == [type |-> "Boolean", value |-> value]
Map(map) == [type |-> "Map", map |-> map]
PrintDirective(name, arguments) == [name |-> name, arguments |-> arguments]
String(value) == [type |-> "String", value |-> value]
BinaryOperation(lhs, op, rhs) == [type |-> "BinaryOperation", lhs |-> lhs, op |-> op, rhs |-> rhs]
TernaryOperation(c, a, b) ==
    [type |-> "TernaryOperation", condition |-> c, if_true |-> a, if_false |-> b]
DataReference(referent, references) ==
    [type |-> "DataReference", referent |-> referent, references |-> references]
Referent(type, name) == [type |-> type, name |-> name]
KeyReference(type, key) == [type |-> type, key |-> key]
ExpressionReference(type, e) == [type |-> type, expression |-> e]
ReferenceKey(type, value) == [type |-> type, value |-> value]

\* str::parse for i64 and usize: a decimal digit string is read to its value
\* (kept as digits without leading zeros), and fails when the value does not
\* fit the type.
DigitValue(ch) == (CHOOSE i \in 1..Len(DigitChars) : DigitChars[i] = ch) - 1

RECURSIVE StripZeros(_)
StripZeros(digits) ==
    IF Len(digits) > 1 /\ digits[1] = "0" THEN StripZeros(Tail(digits)) ELSE digits

Exceeds(digits, max) ==
    \/ Len(digits) > Len(max)
    \/ /\ Len(digits) = Len(max)
       /\ \E i \in 1..Len(max) :
            /\ DigitValue(digits[i]) > DigitValue(max[i])
            /\ \A j \in 1..(i - 1) : digits[j] = max[j]

str_parse(digits, max) ==
    [ok |-> ~Exceeds(StripZeros(digits), max), value |-> StripZeros(digits)]

\* The tier of each binary operator; unwrap_or(&7) for an operator not in the
\* table.
\* Mutant: modulo is given the tier of plus and minus.
ORDER_OF_OPS_modulo_loose(op) ==
    CASE op \in {"Times", "Divide"} -> 0
      [] op \in {"Plus", "Minus", "Modulo"} -> 1
      [] op \in {"Less", "Greater", "LessEquals", "GreaterEquals"} -> 2
      [] op \in {"Equals", "NotEquals"} -> 3
      [] op = "And" -> 4
      [] op = "Or" -> 5
      [] op = "Elvis" -> 6
      [] OTHER -> 7

ORDER_OF_OPS(op) ==
    CASE op \in {"Times", "Divide", "Modulo"} -> 0
      [] op \in {"Plus", "Minus"} -> 1
      [] op \in {"Less", "Greater", "LessEquals", "GreaterEquals"} -> 2
      [] op \in {"Equals", "NotEquals"} -> 3
      [] op = "And" -> 4
      [] op = "Or" -> 5
      [] op = "Elvis" -> 6
      [] OTHER -> 7

\* Mutant: the last of the entries with the least key.
max_by_key_reversed(ops) ==
    CHOOSE i \in 1..Len(ops) :
        /\ \A j \in 1..Len(ops) : ORDER_OF_OPS(ops[i].op) <= ORDER_OF_OPS(ops[j].op)
        /\ \A j \in (i + 1)..Len(ops) : ORDER_OF_OPS(ops[j].op) > ORDER_OF_OPS(ops[i].op)

\* Iterator::min_by_key: the first of the entries with the least key.
min_by_key(ops) ==
    CHOOSE i \in 1..Len(ops) :
        /\ \A j \in 1..Len(ops) : ORDER_OF_OPS(ops[i].op) <= ORDER_OF_OPS(ops[j].op)
        /\ \A j \in 1..(i - 1) : ORDER_OF_OPS(ops[j].op) > ORDER_OF_OPS(ops[i].op)

\* Vec::remove.
\* Mutant: the entry after the one asked for is removed, when there is one.
RemoveAt_next(seq, i) ==
    IF i < Len(seq) THEN SubSeq(seq, 1, i) \o SubSeq(seq, i + 2, Len(seq))
    ELSE SubSeq(seq, 1, i - 1)

RemoveAt(seq, i) == SubSeq(seq, 1, i - 1) \o SubSeq(seq, i + 1, Len(seq))

\* The entries of the working list are Options.
Some(e) == [some |-> TRUE, value |-> e]
None == [some |-> FALSE, value |-> << >>]
Unwrapped(ops) == [i \in 1..Len(ops) |-> ops[i].value]

\* Mutant: the left neighbour is taken and not put back.
RECURSIVE build_binary_operation_loop_takes(_, _, _)
build_binary_operation_loop_takes(lhs, ops, sizes) ==
    IF ops = << >> THEN [lhs |-> lhs, sizes |-> sizes, panic |-> FALSE]
    ELSE IF \E i \in 1..Len(ops) : ~ops[i].some
    THEN [lhs |-> lhs, sizes |-> Append(sizes, Len(ops)), panic |-> TRUE]
    ELSE LET index == min_by_key(Unwrapped(ops))
             op == ops[index].value.op
             rhs == ops[index].value.rhs
             rest == RemoveAt(ops, index)
         IN  IF index = 1
             THEN build_binary_operation_loop_takes(
                      BinaryOperation(lhs, op, rhs), rest, Append(sizes, Len(ops)))
             ELSE build_binary_operation_loop_takes(
                      lhs, [rest EXCEPT ![index - 1] = None], Append(sizes, Len(ops)))

\* The while loop: ops is the working list, sizes the length of the list at
\* the start of each iteration so far.  min_by_key unwraps every entry, the
\* chosen entry is removed and unwrapped, and it is folded into lhs (index 0
\* in the code, 1 here) or into the right operand of the entry before it,
\* which is taken, unwrapped and put back.
RECURSIVE build_binary_operation_loop(_, _, _)
build_binary_operation_loop(lhs, ops, sizes) ==
    IF ops = << >> THEN [lhs |-> lhs, sizes |-> sizes, panic |-> FALSE]
    ELSE IF \E i \in 1..Len(ops) : ~ops[i].some
    THEN [lhs |-> lhs, sizes |-> Append(sizes, Len(ops)), panic |-> TRUE]
    ELSE LET index == min_by_key(Unwrapped(ops))
             op == ops[index].value.op
             rhs == ops[index].value.rhs
             rest == RemoveAt(ops, index)
         IN  IF index = 1
             THEN build_binary_operation_loop(
                      BinaryOperation(lhs, op, rhs), rest, Append(sizes, Len(ops)))
             ELSE LET left == rest[index - 1].value
                  IN  build_binary_operation_loop(
                          lhs,
                          [rest EXCEPT ![index - 1] =
                              Some([op |-> left.op, rhs |-> BinaryOperation(left.rhs, op, rhs)])],
                          Append(sizes, Len(ops)))

\* ops is the list of (operator, right operand) entries.
build_binary_operation(lhs, ops) ==
    build_binary_operation_loop(lhs, [i \in 1..Len(ops) |-> Some(ops[i])], << >>).lhs

parse_binary_operator(pair) ==
    CASE pair.rule = "op_minus" -> "Minus"
      [] pair.rule = "op_plus" -> "Plus"
      [] pair.rule = "op_times" -> "Times"
      [] pair.rule = "op_divide" -> "Divide"
      [] pair.rule = "op_modulo" -> "Modulo"
      [] pair.rule = "op_less" -> "Less"
      [] pair.rule = "op_le" -> "LessEquals"
      [] pair.rule = "op_greater" -> "Greater"
      [] pair.rule = "op_ge" -> "GreaterEquals"
      [] pair.rule = "op_equals" -> "Equals"
      [] pair.rule = "op_ne" -> "NotEquals"
      [] pair.rule = "op_and" -> "And"
      [] pair.rule = "op_or" -> "Or"
      [] pair.rule = "op_elvis" -> "Elvis"

RECURSIVE parse_expression(_)

parse_quoted_string(pair) == pair.inner[1].str

parse_reference_key(pair) ==
    LET p == pair.inner[1]
    IN  CASE p.rule = "whole_number" -> ReferenceKey("Number", str_parse(p.str, UsizeMax).value)
          [] p.rule = "name" -> ReferenceKey("Name", p.str)

parse_name(p) == p.inner[1].str

\* One chained step of a reference.
\* Mutant: a question-dotted step is pushed as a plain dotted step.
parse_reference_step_loses_question(p) ==
    CASE p.rule = "bracketed_reference" ->
            ExpressionReference("Bracketed", parse_expression(p.inner[1]))
      [] p.rule = "dotted_reference" ->
            KeyReference("Dotted", parse_reference_key(p.inner[1]))
      [] p.rule = "question_bracketed_reference" ->
            ExpressionReference("QuestionBracketed", parse_expression(p.inner[1]))
      [] p.rule = "question_dotted_reference" ->
            KeyReference("Dotted", parse_reference_key(p.inner[1]))

parse_reference_step(p) ==
    CASE p.rule = "bracketed_reference" ->
            ExpressionReference("Bracketed", parse_expression(p.inner[1]))
      [] p.rule = "dotted_reference" ->
            KeyReference("Dotted", parse_reference_key(p.inner[1]))
      [] p.rule = "question_bracketed_reference" ->
            ExpressionReference("QuestionBracketed", parse_expression(p.inner[1]))
      [] p.rule = "question_dotted_reference" ->
            KeyReference("QuestionDotted", parse_reference_key(p.inner[1]))

IsReferent(p) == p.rule \in {"variable", "injected_data"}
IsStep(p) == ~IsReferent(p)

\* The loop over the inner pairs: the referent is the last variable or
\* injected_data pair, the references are the steps in their order.
parse_reference(pair) ==
    LET referents == SelectSeq(pair.inner, IsReferent)
        steps == SelectSeq(pair.inner, IsStep)
        last == referents[Len(referents)]
    IN  DataReference(
            Referent(IF last.rule = "variable" THEN "Variable" ELSE "Injected", parse_name(last)),
            [i \in 1..Len(steps) |-> parse_reference_step(steps[i])])

\* The operation arm: lhs, then (operator, right operand) pairs.
parse_operation(pair) ==
    LET p == pair.inner
        lhs == parse_expression(p[1])
        ops == [i \in 1..((Len(p) - 1) \div 2) |->
                   [op |-> parse_binary_operator(p[2 * i]),
                    rhs |-> parse_expression(p[2 * i + 1])]]
    IN  build_binary_operation(lhs, ops)

\* Mutant: the two branches of a ternary are taken in the wrong order.
parse_ternary_operation_swapped(pair) ==
    TernaryOperation(parse_expression(pair.inner[1]),
                     parse_expression(pair.inner[3]),
                     parse_expression(pair.inner[2]))

parse_ternary_operation(pair) ==
    TernaryOperation(parse_expression(pair.inner[1]),
                     parse_expression(pair.inner[2]),
                     parse_expression(pair.inner[3]))

\* The map_literal arm: the entries are inserted one after another.
\* Mutant: an entry whose key is already present is skipped.
RECURSIVE parse_map_literal_first_wins(_, _)
parse_map_literal_first_wins(entries, map) ==
    IF entries = << >> THEN map
    ELSE LET p == entries[1].inner
             key == parse_quoted_string(p[1].inner[1].inner[1])
             value == parse_expression(p[2].inner[1])
         IN  parse_map_literal_first_wins(
                 Tail(entries), IF key \in DOMAIN map THEN map ELSE Insert(map, key, value))

RECURSIVE parse_map_literal(_, _)
parse_map_literal(entries, map) ==
    IF entries = << >> THEN map
    ELSE LET p == entries[1].inner
             key == parse_quoted_string(p[1].inner[1].inner[1])
             value == parse_expression(p[2].inner[1])
         IN  parse_map_literal(Tail(entries), Insert(map, key, value))

parse_expression(pair) ==
    CASE pair.rule = "expression" -> parse_expression(pair.inner[1])
      [] pair.rule = "boolean" -> Boolean(pair.str = <<"t", "r", "u", "e">>)
      [] pair.rule = "integer" -> Integer(str_parse(pair.str, I64Max).value)
      [] pair.rule = "map_literal" -> Map(parse_map_literal(pair.inner, EmptyMap))
      [] pair.rule = "string" -> String(parse_quoted_string(pair.inner[1]))
      [] pair.rule = "operation" -> parse_operation(pair)
      [] pair.rule = "ternary_operation" -> parse_ternary_operation(pair)
      [] pair.rule = "reference" -> parse_reference(pair)

\* Where the tree builder unwraps a failed str::parse: the pairs on which
\* parse_expression panics.
RECURSIVE panics_expression(_)
panics_reference_key(pair) ==
    pair.inner[1].rule = "whole_number" /\ ~str_parse(pair.inner[1].str, UsizeMax).ok

panics_reference_step(p) ==
    IF p.rule \in {"dotted_reference", "question_dotted_reference"}
    THEN panics_reference_key(p.inner[1])
    ELSE panics_expression(p.inner[1])

panics_expression(pair) ==
    CASE pair.rule = "integer" -> ~str_parse(pair.str, I64Max).ok
      [] pair.rule = "reference" ->
            \E i \in 1..Len(pair.inner) :
                IsStep(pair.inner[i]) /\ panics_reference_step(pair.inner[i])
      [] pair.rule = "operation" ->
            \E i \in 1..Len(pair.inner) : i % 2 = 1 /\ panics_expression(pair.inner[i])
      [] pair.rule \in {"expression", "ternary_operation"} ->
            \E i \in 1..Len(pair.inner) : panics_expression(pair.inner[i])
      [] pair.rule = "map_literal" ->
            \E i \in 1..Len(pair.inner) : panics_expression(pair.inner[i].inner[2].inner[1])
      [] OTHER -> FALSE

RECURSIVE parse_template_block(_)

HasRule(item, rules) == \E i \in 1..Len(item) : item[i].rule \in rules
LastOfRule(item, rule) ==
    item[CHOOSE i \in 1..Len(item) :
            /\ item[i].rule = rule
            /\ \A j \in (i + 1)..Len(item) : item[j].rule # rule]
IsPluralCase(p) == p.rule = "plural_case"

parse_plural_case(pair) ==
    [expression |-> parse_expression(LastOfRule(pair.inner, "expression")),
     body |-> parse_template_block(LastOfRule(pair.inner, "template_block"))]

\* The body is the third inner pair, after the tag and the attributes.
parse_message_body(pair) ==
    LET p == pair.inner[3]
    IN  CASE p.rule = "template_block" -> [type |-> "Block", block |-> parse_template_block(p)]
          [] p.rule = "msg_plural" ->
                LET cases == SelectSeq(p.inner, IsPluralCase)
                IN  [type |-> "Plural",
                     expression |-> parse_expression(LastOfRule(p.inner, "expression")),
                     cases |-> [i \in 1..Len(cases) |-> parse_plural_case(cases[i])],
                     default |-> parse_template_block(
                                     LastOfRule(p.inner, "plural_default").inner[1])]

\* One print directive: its name, and its arguments when it has any.
\* Mutant: the last argument is lost.
parse_print_directive_short(pd) ==
    PrintDirective(
        pd.inner[1].str,
        IF Len(pd.inner) < 2 THEN << >>
        ELSE LET args == pd.inner[2].inner
             IN  [i \in 1..(Len(args) - 1) |-> parse_expression(args[i])])

parse_print_directive(pd) ==
    PrintDirective(
        pd.inner[1].str,
        IF Len(pd.inner) < 2 THEN << >>
        ELSE LET args == pd.inner[2].inner
             IN  [i \in 1..Len(args) |-> parse_expression(args[i])])

\* The print_statement arm drops the open tag, then takes the expression and
\* the directives.
parse_command(pair) ==
    CASE pair.rule = "msg_statement" -> [type |-> "Msg", body |-> parse_message_body(pair)]
      [] pair.rule = "print_statement" ->
            LET p == pair.inner
            IN  [type |-> "Print",
                 expression |-> parse_expression(p[2]),
                 directives |-> [i \in 1..Len(p[3].inner) |->
                                    parse_print_directive(p[3].inner[i])]]

\* The statements on which parse_command reaches a panicking expression.
RECURSIVE panics_template_block(_)
panics_print_directive(pd) ==
    Len(pd.inner) >= 2 /\ \E i \in 1..Len(pd.inner[2].inner) : panics_expression(pd.inner[2].inner[i])

panics_message_body(pair) ==
    LET p == pair.inner[3]
    IN  IF p.rule = "template_block" THEN panics_template_block(p)
        ELSE \E i \in 1..Len(p.inner) :
                CASE p.inner[i].rule = "expression" -> panics_expression(p.inner[i])
                  [] p.inner[i].rule = "plural_case" ->
                        \/ panics_expression(p.inner[i].inner[1])
                        \/ panics_template_block(p.inner[i].inner[2])
                  [] p.inner[i].rule = "plural_default" ->
                        panics_template_block(p.inner[i].inner[1])

panics_command(pair) ==
    CASE pair.rule = "msg_statement" -> panics_message_body(pair)
      [] pair.rule = "print_statement" ->
            \/ panics_expression(pair.inner[2])
            \/ \E i \in 1..Len(pair.inner[3].inner) : panics_print_directive(pair.inner[3].inner[i])

panics_template_block(pair) ==
    \E i \in 1..Len(pair.inner) :
        \E j \in 1..Len(pair.inner[i]) :
            pair.inner[i][j].rule = "statement" /\ panics_command(pair.inner[i][j].inner)

panics_soyfile(pair) ==
    \E i \in 1..Len(pair.templates) : panics_template_block(pair.templates[i].template_block)

parse_special(item) == Special(LastOfRule(item, "special").str)

\* One item of a template block: the flag is set by any line break or comment
\* of the item, the node is the item's statement, else its raw text.

\* Mutant: only a line break sets the flag, a comment does not.
parse_template_node_linebreak_only(item) ==
    LET has_linebreak == HasRule(item, {"linebreak"})
    IN  IF HasRule(item, {"statement"})
        THEN Statement(parse_command(LastOfRule(item, "statement").inner), has_linebreak)
        ELSE IF HasRule(item, {"raw_text"})
        THEN RawText(LastOfRule(item, "raw_text").str, has_linebreak)
        ELSE IF HasRule(item, {"special"})
        THEN parse_special(item)
        ELSE NoNode

\* Mutant: an item with neither a statement nor raw text gives an empty text.
parse_template_node_keeps_empty(item) ==
    LET has_linebreak == HasRule(item, Separators)
    IN  IF HasRule(item, {"statement"})
        THEN Statement(parse_command(LastOfRule(item, "statement").inner), has_linebreak)
        ELSE IF HasRule(item, {"raw_text"})
        THEN RawText(LastOfRule(item, "raw_text").str, has_linebreak)
        ELSE IF HasRule(item, {"special"})
        THEN parse_special(item)
        ELSE RawText(<< >>, has_linebreak)

parse_template_node(item) ==
    LET has_linebreak == HasRule(item, Separators)
    IN  IF HasRule(item, {"statement"})
        THEN Statement(parse_command(LastOfRule(item, "statement").inner), has_linebreak)
        ELSE IF HasRule(item, {"raw_text"})
        THEN RawText(LastOfRule(item, "raw_text").str, has_linebreak)
        ELSE IF HasRule(item, {"special"})
        THEN parse_special(item)
        ELSE NoNode

IsNode(n) == n.type # "None"

parse_template_block(pair) ==
    SelectSeq([i \in 1..Len(pair.inner) |-> parse_template_node(pair.inner[i])], IsNode)

IsRequiredMark(p) == p.rule \in {"soydoc_required", "soydoc_optional"}

\* Mutant: every parameter is taken as required.
parse_soydoc_param_all_required(pair) ==
    [name |-> LastOfRule(pair.inner, "name").str, required |-> TRUE]

\* The loop keeps the last name and the last required / optional mark.
parse_soydoc_param(pair) ==
    LET marks == SelectSeq(pair.inner, IsRequiredMark)
    IN  [name |-> LastOfRule(pair.inner, "name").str,
         required |-> marks[Len(marks)].rule = "soydoc_required"]

parse_template(pair) ==
    [name |-> pair.template_name,
     body |-> parse_template_block(pair.template_block),
     soydoc_params |-> [i \in 1..Len(pair.soydoc) |-> parse_soydoc_param(pair.soydoc[i])]]

parse_soyfile(pair) ==
    [namespace |-> [name |-> pair.namespace],
     templates |-> [i \in 1..Len(pair.templates) |-> parse_template(pair.templates[i])]]

\* parse: the grammar's error is returned with `?`; a panic of the tree
\* builder unwinds through parse; else the file.
parse(text) ==
    LET parsed == SoyParser_parse(text)
    IN  IF ~parsed.ok THEN [ok |-> FALSE, panic |-> FALSE, file |-> << >>]
        ELSE IF panics_soyfile(parsed.pair) THEN [ok |-> FALSE, panic |-> TRUE, file |-> << >>]
        ELSE [ok |-> TRUE, panic |-> FALSE, file |-> parse_soyfile(parsed.pair)]


\* ------------------------------------------------------------ the registry
\* Tofu.templates is a map from fully-qualified name to template.

\* Mutant: the key is the bare template name.
format_key_unqualified(namespace, name) == name

format_key(namespace, name) == namespace \o Dot \o name

\* HashMap::extend: the entries are inserted one after another, in order.
RECURSIVE Extend(_, _)
Extend(map, entries) ==
    IF entries = << >> THEN map
    ELSE Extend(Insert(map, entries[1].key, entries[1].value), Tail(entries))

add_file(map, file) ==
    LET namespace == file.namespace.name
    IN  Extend(map, [i \in 1..Len(file.templates) |->
                        [key |-> format_key(namespace, file.templates[i].name),
                         value |-> file.templates[i]]])

Pending == [status |-> "Pending", kind |-> "None"]
BuildOk == [status |-> "Ok", kind |-> "None"]
CompileError(kind) == [status |-> "Err", kind |-> kind]
Panic == [status |-> "Panic", kind |-> "None"]

\* The conversion `?` applies to the grammar's diagnostic.
CompileError_from(diagnostic) == CompileError("Parse")

\* Mutant: the grammar's diagnostic is swallowed and an empty Tofu returned.
with_string_template_swallows(text) ==
    LET file == parse(text)
    IN  IF file.panic THEN [result |-> Panic, templates |-> EmptyMap]
        ELSE IF ~file.ok
        THEN [result |-> BuildOk, templates |-> EmptyMap]
        ELSE [result |-> BuildOk, templates |-> add_file(EmptyMap, file.file)]

\* No Tofu exists after an Err or a panic: templates is left empty.
with_string_template(text) ==
    LET file == parse(text)
    IN  IF file.panic THEN [result |-> Panic, templates |-> EmptyMap]
        ELSE IF ~file.ok
        THEN [result |-> CompileError_from("pest"), templates |-> EmptyMap]
        ELSE [result |-> BuildOk, templates |-> add_file(EmptyMap, file.file)]

\* Tofu::template: the lookup of a fully-qualified name.
NoResult == [kind |-> "None", name |-> << >>]
Ok == [kind |-> "Ok", name |-> << >>]
TemplateNotFound(name) == [kind |-> "TemplateNotFound", name |-> name]
IoError == [kind |-> "IoError", name |-> << >>]

\* Mutant: the error does not carry the name asked for.
lookup_drops_name(map, name) ==
    IF name \in DOMAIN map THEN [found |-> TRUE, error |-> NoResult]
    ELSE [found |-> FALSE, error |-> TemplateNotFound(<< >>)]

lookup(map, name) ==
    IF name \in DOMAIN map THEN [found |-> TRUE, error |-> NoResult]
    ELSE [found |-> FALSE, error |-> TemplateNotFound(name)]

\* ------------------------------------------------------------ the renderer
\* write_all on the sink: every byte is written, or the write fails after a
\* proper prefix of the bytes.
write_all(out, bytes) ==
    {[writer |-> out \o bytes, ok |-> TRUE]}
    \cup {[writer |-> out \o SubSeq(bytes, 1, k), ok |-> FALSE] : k \in 0..(Len(bytes) - 1)}

\* Mutant: the pending-space flag starts set.
InitialAddSpaceStartsSet == TRUE

InitialAddSpace == FALSE

Outcome(w, flag) == [writer |-> w.writer, add_space_if_text |-> flag, ok |-> w.ok]

\* Mutant: the raw-text arm forgets to update the flag.
render_raw_text_keeps_flag(node, flag, out) ==
    LET first == IF flag THEN write_all(out, Space) ELSE {[writer |-> out, ok |-> TRUE]}
    IN  UNION {IF ~w1.ok THEN {Outcome(w1, flag)}
               ELSE {Outcome(w2, flag) : w2 \in write_all(w1.writer, node.value)} :
               w1 \in first}

render_raw_text(node, flag, out) ==
    LET first == IF flag THEN write_all(out, Space) ELSE {[writer |-> out, ok |-> TRUE]}
    IN  UNION {IF ~w1.ok THEN {Outcome(w1, flag)}
               ELSE {Outcome(w2, IF w2.ok THEN node.newline ELSE flag) :
                        w2 \in write_all(w1.writer, node.value)} : w1 \in first}

\* Mutant: the statement arm consumes the flag like raw text does.
render_statement_joins(node, flag, out) ==
    LET first == IF flag THEN write_all(out, Space) ELSE {[writer |-> out, ok |-> TRUE]}
    IN  {Outcome(w, IF w.ok THEN FALSE ELSE flag) : w \in first}

render_statement(node, flag, out) ==
    LET written == IF node.command.type = "Literal"
                   THEN write_all(out, node.command.value)
                   ELSE {[writer |-> out, ok |-> TRUE]}
    IN  {Outcome(w, IF w.ok THEN FALSE ELSE flag) : w \in written}

\* Mutant: the special arm clears the flag like the statement arm does.
render_special_clears_flag(node, flag, out) ==
    {Outcome(w, IF w.ok THEN FALSE ELSE flag) : w \in write_all(out, node.value)}

render_special(node, flag, out) ==
    {Outcome(w, flag) : w \in write_all(out, node.value)}

render_node(node, flag, out) ==
    CASE node.type = "RawText" -> render_raw_text(node, flag, out)
      [] node.type = "Statement" -> render_statement(node, flag, out)
      [] node.type = "Special" -> render_special(node, flag, out)

\* render_template on a Vec<u8>, whose write_all never fails: the sink and
\* the flag after n nodes of the body.
RECURSIVE render_template_vec(_, _)
render_template_vec(body, n) ==
    IF n = 0 THEN [writer |-> << >>, add_space_if_text |-> InitialAddSpace]
    ELSE LET before == render_template_vec(body, n - 1)
             o == CHOOSE x \in render_node(body[n], before.add_space_if_text, before.writer) :
                      x.ok
         IN  [writer |-> o.writer, add_space_if_text |-> o.add_space_if_text]

\* String::from_utf8: the bytes as a String when they are valid UTF-8 (here:
\* when every byte is one of the ASCII bytes of the sources), else the error.
AsciiBytes == {"a", "b", "c", " "}
Utf8Error == [kind |-> "Utf8Error", name |-> << >>]
from_utf8(bytes) ==
    IF \A i \in 1..Len(bytes) : bytes[i] \in AsciiBytes
    THEN [ok |-> TRUE, string |-> bytes, error |-> NoResult]
    ELSE [ok |-> FALSE, string |-> << >>, error |-> Utf8Error]

\* Tofu::render_to_string: render into a Vec, then from_utf8; the error of
\* either is returned with `?`.
\* Mutant: a name that is not in the registry gives Ok and the empty string.
render_to_string_swallows(map, name) ==
    LET found == lookup(map, name)
    IN  IF ~found.found THEN [result |-> Ok, string |-> << >>]
        ELSE LET body == map[name].body
                 output == render_template_vec(body, Len(body)).writer
                 decoded == from_utf8(output)
             IN  IF decoded.ok THEN [result |-> Ok, string |-> decoded.string]
                 ELSE [result |-> decoded.error, string |-> << >>]

render_to_string(map, name) ==
    LET found == lookup(map, name)
    IN  IF ~found.found THEN [result |-> found.error, string |-> << >>]
        ELSE LET body == map[name].body
                 output == render_template_vec(body, Len(body)).writer
                 decoded == from_utf8(output)
             IN  IF decoded.ok THEN [result |-> Ok, string |-> decoded.string]
                 ELSE [result |-> decoded.error, string |-> << >>]

\* -------------------------------------------------------------- the state
VARIABLES
    input,              \* the source text given to with_string_template
    build,              \* the result of with_string_template
    templates,          \* Tofu.templates
    pc,                 \* per render call: "idle", "loop", "done"; "string" once
                        \* render_to_string has returned
    template_name,      \* per render call: the name asked for
    pos,                \* per render call: nodes of the body rendered so far
    add_space_if_text,  \* per render call: the pending-space flag
    writer,             \* per render call: the bytes written to its sink, or the
                        \* String returned by render_to_string
    result              \* per render call: the value returned

vars == <<input, build, templates, pc, template_name, pos, add_space_if_text, writer, result>>
callVars == <<pc, template_name, pos, add_space_if_text, writer, result>>

RequestNames == {format_key(NamespaceName, n) : n \in TemplateNames} \cup {<<"t">>}

InitCalls ==
    /\ build = Pending
    /\ templates = EmptyMap
    /\ pc = [c \in Calls |-> "idle"]
    /\ template_name = [c \in Calls |-> << >>]
    /\ pos = [c \in Calls |-> 0]
    /\ add_space_if_text = [c \in Calls |-> FALSE]
    /\ writer = [c \in Calls |-> << >>]
    /\ result = [c \in Calls |-> NoResult]

Init == input \in RegistrySources /\ InitCalls
InitJoin == input \in JoinSources /\ InitCalls
InitConc == input \in ConcSources /\ InitCalls
InitParse == input \in ParseSources /\ InitCalls
InitEval == input \in EvalSources /\ InitCalls
InitExpr == input \in ExprSources /\ InitCalls

\* Tofu::with_string_template(input)
Build ==
    /\ build = Pending
    /\ LET tofu == with_string_template(input)
       IN  /\ build' = tofu.result
           /\ templates' = tofu.templates
    /\ UNCHANGED <<input, callVars>>

Body(c) == templates[template_name[c]].body

\* Mutant: a lookup that misses inserts an empty template under the name.
Render_inserts_default(c, name) ==
    /\ build = BuildOk
    /\ pc[c] = "idle"
    /\ template_name' = [template_name EXCEPT ![c] = name]
    /\ LET found == lookup(templates, name)
       IN  IF ~found.found
           THEN /\ pc' = [pc EXCEPT ![c] = "done"]
                /\ result' = [result EXCEPT ![c] = found.error]
                /\ templates' = Insert(templates, name,
                                       [name |-> name, body |-> << >>, soydoc_params |-> << >>])
           ELSE /\ templates' = templates
                /\ IF templates[name].body = << >>
                   THEN /\ pc' = [pc EXCEPT ![c] = "done"]
                        /\ result' = [result EXCEPT ![c] = Ok]
                   ELSE /\ pc' = [pc EXCEPT ![c] = "loop"]
                        /\ UNCHANGED result
    /\ add_space_if_text' = [add_space_if_text EXCEPT ![c] = InitialAddSpace]
    /\ UNCHANGED <<input, build, pos, writer>>

\* Mutant: the flag is one process-wide value, and a call starts with it set
\* when any call has it set.
Render_inherits_flag(c, name) ==
    /\ build = BuildOk
    /\ pc[c] = "idle"
    /\ template_name' = [template_name EXCEPT ![c] = name]
    /\ LET found == lookup(templates, name)
       IN  IF ~found.found
           THEN /\ pc' = [pc EXCEPT ![c] = "done"]
                /\ result' = [result EXCEPT ![c] = found.error]
           ELSE IF templates[name].body = << >>
           THEN /\ pc' = [pc EXCEPT ![c] = "done"]
                /\ result' = [result EXCEPT ![c] = Ok]
           ELSE /\ pc' = [pc EXCEPT ![c] = "loop"]
                /\ UNCHANGED result
    /\ add_space_if_text' =
          [add_space_if_text EXCEPT ![c] = \E d \in Calls : add_space_if_text[d]]
    /\ UNCHANGED <<input, build, templates, pos, writer>>

\* Tofu::render(writer, name), up to the first node of the body.
Render(c, name) ==
    /\ build = BuildOk
    /\ pc[c] = "idle"
    /\ template_name' = [template_name EXCEPT ![c] = name]
    /\ LET found == lookup(templates, name)
       IN  IF ~found.found
           THEN /\ pc' = [pc EXCEPT ![c] = "done"]
                /\ result' = [result EXCEPT ![c] = found.error]
           ELSE IF templates[name].body = << >>
           THEN /\ pc' = [pc EXCEPT ![c] = "done"]
                /\ result' = [result EXCEPT ![c] = Ok]
           ELSE /\ pc' = [pc EXCEPT ![c] = "loop"]
                /\ UNCHANGED result
    /\ add_space_if_text' = [add_space_if_text EXCEPT ![c] = InitialAddSpace]
    /\ UNCHANGED <<input, build, templates, pos, writer>>

\* Mutant: every call reads and writes the flag of call 1.
RenderStep_shared_flag(c) ==
    /\ pc[c] = "loop"
    /\ \E o \in render_node(Body(c)[pos[c] + 1], add_space_if_text[1], writer[c]) :
        /\ writer' = [writer EXCEPT ![c] = o.writer]
        /\ add_space_if_text' = [add_space_if_text EXCEPT ![1] = o.add_space_if_text]
        /\ IF ~o.ok
           THEN /\ pc' = [pc EXCEPT ![c] = "done"]
                /\ result' = [result EXCEPT ![c] = IoError]
                /\ UNCHANGED pos
           ELSE /\ pos' = [pos EXCEPT ![c] = @ + 1]
                /\ IF pos[c] + 1 = Len(Body(c))
                   THEN /\ pc' = [pc EXCEPT ![c] = "done"]
                        /\ result' = [result EXCEPT ![c] = Ok]
                   ELSE UNCHANGED <<pc, result>>
    /\ UNCHANGED <<input, build, templates, template_name>>

\* Mutant: the error of a failed write is dropped and the loop goes on.
RenderStep_ignores_error(c) ==
    /\ pc[c] = "loop"
    /\ \E o \in render_node(Body(c)[pos[c] + 1], add_space_if_text[c], writer[c]) :
        /\ writer' = [writer EXCEPT ![c] = o.writer]
        /\ add_space_if_text' = [add_space_if_text EXCEPT ![c] = o.add_space_if_text]
        /\ pos' = [pos EXCEPT ![c] = @ + 1]
        /\ IF pos[c] + 1 = Len(Body(c))
           THEN /\ pc' = [pc EXCEPT ![c] = "done"]
                /\ result' = [result EXCEPT ![c] = Ok]
           ELSE UNCHANGED <<pc, result>>
    /\ UNCHANGED <<input, build, templates, template_name>>

\* One iteration of the loop of Tofu::render_template; the call returns with
\* the first failed write, or after the last node.
RenderStep(c) ==
    /\ pc[c] = "loop"
    /\ \E o \in render_node(Body(c)[pos[c] + 1], add_space_if_text[c], writer[c]) :
        /\ writer' = [writer EXCEPT ![c] = o.writer]
        /\ add_space_if_text' = [add_space_if_text EXCEPT ![c] = o.add_space_if_text]
        /\ IF ~o.ok
           THEN /\ pc' = [pc EXCEPT ![c] = "done"]
                /\ result' = [result EXCEPT ![c] = IoError]
                /\ UNCHANGED pos
           ELSE /\ pos' = [pos EXCEPT ![c] = @ + 1]
                /\ IF pos[c] + 1 = Len(Body(c))
                   THEN /\ pc' = [pc EXCEPT ![c] = "done"]
                        /\ result' = [result EXCEPT ![c] = Ok]
                   ELSE UNCHANGED <<pc, result>>
    /\ UNCHANGED <<input, build, templates, template_name>>

Next ==
    \/ Build
    \/ \E c \in Calls, name \in RequestNames : Render(c, name)
    \/ \E c \in Calls : RenderStep(c)

NextJoin ==
    \/ Build
    \/ \E name \in RequestNames : Render(1, name)
    \/ RenderStep(1)

\* Tofu::render_to_string(name), as one step of call c.
RenderToString(c, name) ==
    /\ build = BuildOk
    /\ pc[c] = "idle"
    /\ template_name' = [template_name EXCEPT ![c] = name]
    /\ LET returned == render_to_string(templates, name)
       IN  /\ result' = [result EXCEPT ![c] = returned.result]
           /\ writer' = [writer EXCEPT ![c] = returned.string]
    /\ pc' = [pc EXCEPT ![c] = "string"]
    /\ UNCHANGED <<input, build, templates, pos, add_space_if_text>>

ConcNames == {format_key(NamespaceName, <<"t">>), <<"t">>}
NextConc ==
    \/ Build
    \/ \E c \in Calls, name \in ConcNames : Render(c, name)
    \/ \E c \in Calls : RenderStep(c)

NextString ==
    \/ Build
    \/ \E c \in Calls, name \in ConcNames : Render(c, name)
    \/ \E c \in Calls : RenderStep(c)
    \/ \E c \in Calls, name \in ConcNames : RenderToString(c, name)

NextEval ==
    \/ Build
    \/ \E name \in ConcNames : Render(1, name)
    \/ RenderStep(1)

NextExpr == Build
NextParse == Build

Spec == Init /\ [][Next]_vars
SpecJoin == InitJoin /\ [][NextJoin]_vars
SpecConc == InitConc /\ [][NextConc]_vars
SpecString == InitConc /\ [][NextString]_vars
SpecEval == InitEval /\ [][NextEval]_vars
SpecExpr == InitExpr /\ [][NextExpr]_vars
SpecParse == InitParse /\ [][NextParse]_vars


\* ============================================================== the claims
NodeAt(c) == Body(c)[pos[c] + 1]
Stepped(c) == pc[c] = "loop" /\ pos'[c] = pos[c] + 1
Rendering(c) == pc[c] # "idle" /\ template_name[c] \in DOMAIN templates
Returned(c) == pc[c] = "done" /\ result[c] = Ok

\* What a node contributes to the output, join spaces apart.
Content(node) ==
    IF node.type = "Statement"
    THEN IF node.command.type = "Literal" THEN node.command.value ELSE << >>
    ELSE node.value

RECURSIVE ContentLen(_)
ContentLen(body) ==
    IF body = << >> THEN 0 ELSE Len(Content(body[1])) + ContentLen(Tail(body))

\* C1: the pending-space flag of a render call starts false, and a completed
\* RawText step writes one space exactly when the flag is set, then the value
\* unchanged, and sets the flag to the node's newline.
C1_RawTextStep ==
    [][\A c \in Calls :
        /\ (pc[c] = "idle" /\ pc'[c] # "idle") => add_space_if_text'[c] = FALSE
        /\ (Stepped(c) /\ NodeAt(c).type = "RawText") =>
              /\ writer'[c] = writer[c]
                                \o (IF add_space_if_text[c] THEN Space ELSE << >>)
                                \o NodeAt(c).value
              /\ add_space_if_text'[c] = NodeAt(c).newline]_vars

C1_Witness ==
    \E c \in Calls :
        /\ Rendering(c) /\ pos[c] = 2
        /\ Body(c)[1] = RawText(<<"a">>, TRUE)
        /\ Body(c)[2] = RawText(<<"b", "c">>, TRUE)
        /\ writer[c] = <<"a", " ", "b", "c">>
        /\ add_space_if_text[c] = TRUE

\* C2: after a completed Statement step the pending-space flag equals the
\* statement's own newline flag.
C2_StatementSetsFlag ==
    [][\A c \in Calls :
        (Stepped(c) /\ NodeAt(c).type = "Statement") =>
            add_space_if_text'[c] = NodeAt(c).newline]_vars

\* C3: a completed Statement step writes the statement's output and nothing
\* in front of it, whatever the pending-space flag is.
C3_StatementNeverJoins ==
    [][\A c \in Calls :
        (Stepped(c) /\ NodeAt(c).type = "Statement") =>
            writer'[c] = writer[c] \o Content(NodeAt(c))]_vars

C3_Witness ==
    \E c \in Calls :
        /\ Rendering(c) /\ pos[c] = 2
        /\ Body(c)[1] = RawText(<<"a">>, TRUE)
        /\ Body(c)[2].type = "Statement"
        /\ writer[c] = <<"a">>

\* C4: a completed Special step writes the literal with nothing in front of it
\* and leaves the pending-space flag as it was; a RawText that follows a
\* Special that follows a RawText with newline set is still joined by a space.
C4_SpecialTransparent ==
    [][\A c \in Calls :
        /\ (Stepped(c) /\ NodeAt(c).type = "Special") =>
              /\ writer'[c] = writer[c] \o NodeAt(c).value
              /\ add_space_if_text'[c] = add_space_if_text[c]
        /\ (/\ Stepped(c) /\ pos[c] >= 2
            /\ NodeAt(c).type = "RawText"
            /\ Body(c)[pos[c]].type = "Special"
            /\ Body(c)[pos[c] - 1].type = "RawText"
            /\ Body(c)[pos[c] - 1].newline) =>
              writer'[c] = writer[c] \o Space \o NodeAt(c).value]_vars

C4_Witness ==
    \E c \in Calls :
        /\ Rendering(c) /\ pos[c] = 3
        /\ Body(c)[1] = RawText(<<"a">>, TRUE)
        /\ Body(c)[2] = Special(Space)
        /\ Body(c)[3].type = "RawText"
        /\ writer[c] = <<"a", " ", " ">> \o Body(c)[3].value

\* C5: the output of a render that returned Ok starts with the content of the
\* first node and ends with the content of the last node, holds at most one
\* join space per gap between two nodes, and is exactly the text when the
\* body is a single raw-text span.
C5_NoLeadingOrTrailingSpace ==
    \A c \in Calls :
        (Rendering(c) /\ Returned(c)) =>
            LET body == Body(c)
            IN  IF body = << >> THEN writer[c] = << >>
                ELSE /\ IsPrefix(Content(body[1]), writer[c])
                     /\ IsSuffix(Content(body[Len(body)]), writer[c])
                     /\ Len(writer[c]) <= ContentLen(body) + Len(body) - 1
                     /\ (Len(body) = 1 /\ body[1].type = "RawText") =>
                            writer[c] = body[1].value

C5_Witness ==
    \E c \in Calls :
        /\ Rendering(c) /\ Returned(c)
        /\ Body(c) = <<RawText(<<"b", "c">>, TRUE)>>
        /\ writer[c] = <<"b", "c">>

\* C6: when the body of a template is raw-text spans separated by runs of
\* line breaks and comments, parsing and then rendering it gives the spans
\* joined by exactly one space each; no comment text is ever written.
SourceBody(name) ==
    LET key(i) == input.namespace \o Dot \o input.templates[i].name
        last == CHOOSE i \in 1..Len(input.templates) :
                    /\ key(i) = name
                    /\ \A j \in (i + 1)..Len(input.templates) : key(j) # name
    IN  input.templates[last].body

TextOnly(toks) ==
    \A i \in 1..Len(toks) : toks[i].rule \in {"raw_text"} \cup Separators

RECURSIVE JoinedText(_)
JoinedText(toks) ==
    IF toks = << >> THEN << >>
    ELSE LET rest == JoinedText(Tail(toks))
         IN  IF toks[1].rule # "raw_text" THEN rest
             ELSE IF rest = << >> THEN toks[1].str
             ELSE toks[1].str \o Space \o rest

C6_LineBreakFolding ==
    \A c \in Calls :
        /\ \A i \in 1..Len(writer[c]) : writer[c][i] \notin {"x", "/", "*", "\n"}
        /\ (Rendering(c) /\ Returned(c) /\ TextOnly(SourceBody(template_name[c]))) =>
              writer[c] = JoinedText(SourceBody(template_name[c]))

C6_Witness ==
    \E c \in Calls :
        /\ Rendering(c) /\ Returned(c)
        /\ SourceBody(template_name[c]) =
              <<RawTextTok(<<"a">>), InnerCommentTok, LinebreakTok, RawTextTok(<<"b", "c">>)>>
        /\ writer[c] = <<"a", " ", "b", "c">>


\* C7: a render call whose name is not a key of the registry returns
\* TemplateNotFound carrying exactly that name and writes nothing.
C7_TemplateNotFound ==
    \A c \in Calls :
        (pc[c] # "idle" /\ template_name[c] \notin DOMAIN templates) =>
            /\ pc[c] = "done"
            /\ result[c] = [kind |-> "TemplateNotFound", name |-> template_name[c]]
            /\ writer[c] = << >>

C7_Witness ==
    \E c \in Calls :
        /\ templates # EmptyMap
        /\ template_name[c] = <<"n", "s", ".", "u">>
        /\ result[c].kind = "TemplateNotFound"

\* C8: after a successful build every declared template T is found under the
\* key "N.T", and no other key is found.
QualifiedName(i) == input.namespace \o <<".">> \o input.templates[i].name
Declared == 1..Len(input.templates)

C8_RegistryKeys ==
    build = BuildOk =>
        /\ \A i \in Declared :
              /\ lookup(templates, QualifiedName(i)).found
              /\ templates[QualifiedName(i)].name = input.templates[i].name
        /\ \A k \in RequestNames \cup DOMAIN templates :
              lookup(templates, k).found => \E i \in Declared : k = QualifiedName(i)

C8_Witness ==
    /\ build = BuildOk
    /\ Len(input.templates) = 2
    /\ input.templates[1].name = <<"t">>
    /\ input.templates[2].name = <<"u">>
    /\ lookup(templates, <<"n", "s", ".", "t">>).found
    /\ lookup(templates, <<"n", "s", ".", "u">>).found
    /\ ~lookup(templates, <<"t">>).found

\* C9: a build in which two templates have the same fully-qualified name
\* fails with a CompileError.
C9_CollisionFails ==
    (/\ build # Pending
     /\ \E i, j \in Declared : i < j /\ QualifiedName(i) = QualifiedName(j)) =>
        build.status = "Err"

\* C10: a build succeeds only if every variable referenced in the body of a
\* template is declared in that template's soydoc.
ReferencedVariables(body) ==
    {body[i].command.expression.referent.name :
        i \in {j \in 1..Len(body) :
                 /\ body[j].type = "Statement"
                 /\ body[j].command.type = "Print"
                 /\ body[j].command.expression.type = "DataReference"
                 /\ body[j].command.expression.referent.type = "Variable"}}

DeclaredParameters(t) == {t.soydoc_params[i].name : i \in 1..Len(t.soydoc_params)}

C10_UndeclaredParameterFails ==
    build = BuildOk =>
        \A k \in DOMAIN templates :
            ReferencedVariables(templates[k].body) \subseteq DeclaredParameters(templates[k])

\* ------------------------------------------- claims on build and on calls
\* C11: a source text the grammar rejects makes build return CompileError of
\* kind Parse, with no registry: no template is stored and no call can render.
C11_RejectedSourceFails ==
    ~input.valid /\ build # Pending =>
        /\ build = CompileError("Parse")
        /\ templates = EmptyMap
        /\ \A c \in Calls : pc[c] = "idle" /\ writer[c] = << >>

\* Build has returned on a rejected source text.
C11_Witness == ~input.valid /\ build = CompileError("Parse")

\* The state of a call that runs alone on a sink that accepts every write,
\* after n nodes of the body.
RECURSIVE Solo(_, _)
Solo(body, n) ==
    IF n = 0 THEN [writer |-> << >>, add_space_if_text |-> InitialAddSpace]
    ELSE LET before == Solo(body, n - 1)
             o == CHOOSE x \in render_node(body[n], before.add_space_if_text, before.writer) :
                      x.ok
         IN  [writer |-> o.writer, add_space_if_text |-> o.add_space_if_text]

SoloOutput(body) == Solo(body, Len(body)).writer
BuiltTemplates == with_string_template(input).templates

\* C12: lookup and render only read the registry: no step of a call, failed
\* ones included, changes the registry build returned, and a call that
\* returns Ok has written what its template gives on that registry.
C12_RegistryUnchanged ==
    [][build = BuildOk =>
          /\ build' = build
          /\ templates' = templates
          /\ \A c \in Calls :
                pc'[c] = "done" /\ result'[c] = Ok =>
                    writer'[c] = SoloOutput(templates[template_name'[c]].body)]_vars

\* One call has failed with TemplateNotFound and the other has rendered a
\* template of the registry.
C12_Witness ==
    /\ result[1].kind = "TemplateNotFound"
    /\ Returned(2) /\ writer[2] = <<"a">>
    /\ DOMAIN templates = DOMAIN BuiltTemplates

\* C13: under every interleaving of the steps of the render calls, each call
\* that has met no sink error has written, and holds in its flag, what it has
\* after the same number of nodes when run alone.
C13_NoInterference ==
    \A c \in Calls :
        Rendering(c) /\ result[c].kind # "IoError" =>
            /\ writer[c] = Solo(Body(c), pos[c]).writer
            /\ add_space_if_text[c] = Solo(Body(c), pos[c]).add_space_if_text

\* Two calls are at different nodes of the same body: one is part-way with
\* its flag set, the other has returned with the text joined and its flag
\* clear.
C13_Witness ==
    /\ pc[1] = "loop" /\ Returned(2)
    /\ template_name[1] = template_name[2]
    /\ pos[1] = 1 /\ pos[2] = 2
    /\ add_space_if_text[1] /\ ~add_space_if_text[2]
    /\ writer[1] = <<"a">> /\ writer[2] = <<"a", " ", "b", "c">>

Accepted(c) == pc[c] = "done" /\ result[c].kind # "IoError"

\* C14: two calls for the same template name whose sinks accepted every
\* write have written the same bytes and returned the same result.
C14_Deterministic ==
    \A c, d \in Calls :
        Accepted(c) /\ Accepted(d) /\ template_name[c] = template_name[d] =>
            writer[c] = writer[d] /\ result[c] = result[d]

\* Two calls have both returned Ok with the text joined by one space.
C14_Witness ==
    /\ Returned(1) /\ Returned(2)
    /\ template_name[1] = template_name[2]
    /\ writer[1] = <<"a", " ", "b", "c">>
    /\ writer[2] = writer[1]

\* C15: a write that fails ends the call with IoError in the same step: the
\* nodes before it are written whole, part of the node at which the write
\* failed is written, nothing of a later node is, and what is written is a
\* prefix of the output on a sink that never fails.
C15_FailFast ==
    \A c \in Calls :
        Rendering(c) =>
            /\ result[c].kind # "IoError" => writer[c] = Solo(Body(c), pos[c]).writer
            /\ result[c].kind = "IoError" =>
                  /\ pc[c] = "done"
                  /\ pos[c] < Len(Body(c))
                  /\ IsPrefix(Solo(Body(c), pos[c]).writer, writer[c])
                  /\ IsPrefix(writer[c], Solo(Body(c), pos[c] + 1).writer)
                  /\ writer[c] # Solo(Body(c), pos[c] + 1).writer
                  /\ IsPrefix(writer[c], SoloOutput(Body(c)))

\* A write failed part-way through the second node, with a node still to come.
C15_Witness ==
    /\ result[1].kind = "IoError" /\ pc[1] = "done"
    /\ pos[1] = 1 /\ Len(Body(1)) >= 3
    /\ Len(writer[1]) > Len(Solo(Body(1), 1).writer)

\* --------------------------------------------------- claims on expressions
SourceExpression == input.templates[1].body[1].inner.inner[2].inner[1]
BuiltExpression == templates[format_key(NamespaceName, <<"t">>)].body[1].command.expression
IsChain(pair) == pair.rule = "operation"
Operands(pair) == [i \in 1..((Len(pair.inner) + 1) \div 2) |-> pair.inner[2 * i - 1]]
Operators(pair) == [i \in 1..((Len(pair.inner) - 1) \div 2) |-> pair.inner[2 * i].rule]

\* The tier table of the specification, by grammar rule of the operator.
Tier(rule) ==
    CASE rule \in {"op_times", "op_divide", "op_modulo"} -> 0
      [] rule \in {"op_plus", "op_minus"} -> 1
      [] rule \in {"op_less", "op_greater", "op_le", "op_ge"} -> 2
      [] rule \in {"op_equals", "op_ne"} -> 3
      [] rule = "op_and" -> 4
      [] rule = "op_or" -> 5
      [] rule = "op_elvis" -> 6

OperatorOf(rule) ==
    CASE rule = "op_minus" -> "Minus" [] rule = "op_plus" -> "Plus"
      [] rule = "op_times" -> "Times" [] rule = "op_divide" -> "Divide"
      [] rule = "op_modulo" -> "Modulo" [] rule = "op_less" -> "Less"
      [] rule = "op_le" -> "LessEquals" [] rule = "op_greater" -> "Greater"
      [] rule = "op_ge" -> "GreaterEquals" [] rule = "op_equals" -> "Equals"
      [] rule = "op_ne" -> "NotEquals" [] rule = "op_and" -> "And"
      [] rule = "op_or" -> "Or" [] rule = "op_elvis" -> "Elvis"

\* The tree of a left-associative precedence parse: the root is the rightmost
\* operator of the loosest tier present, its children the trees of the two
\* sides.
RECURSIVE PrecedenceTree(_, _)
PrecedenceTree(operands, operators) ==
    IF operators = << >> THEN operands[1]
    ELSE LET k == CHOOSE i \in 1..Len(operators) :
                      /\ \A j \in 1..Len(operators) : Tier(operators[j]) <= Tier(operators[i])
                      /\ \A j \in (i + 1)..Len(operators) :
                            Tier(operators[j]) < Tier(operators[i])
         IN  BinaryOperation(
                 PrecedenceTree(SubSeq(operands, 1, k), SubSeq(operators, 1, k - 1)),
                 OperatorOf(operators[k]),
                 PrecedenceTree(SubSeq(operands, k + 1, Len(operands)),
                                SubSeq(operators, k + 1, Len(operators))))

\* The tree a chain pair must give, its operands built by parse_expression.
ExpectedTree(pair) ==
    IF IsChain(pair)
    THEN PrecedenceTree([i \in 1..Len(Operands(pair)) |-> parse_expression(Operands(pair)[i])],
                        Operators(pair))
    ELSE parse_expression(pair)

Num(d) == Integer(<<d>>)
Built == build = BuildOk

\* C16: build never panics: it returns a Tofu or a CompileError for every
\* source text, an integer literal or a numeric key out of range included.
C16_NeverPanics == build.status # "Panic"

\* C17: the tree built from a flat chain of binary operators is the tree of
\* a left-associative precedence parse with the tier table, and
\* 5 * (4 - 3 / 1) * 2 gives ((5 * (4 - (3 / 1))) * 2).
C17_PrecedenceCorrect ==
    /\ Built /\ IsChain(SourceExpression) => BuiltExpression = ExpectedTree(SourceExpression)
    /\ Built /\ SourceExpression = ParenthesesExample =>
          BuiltExpression =
              BinaryOperation(
                  BinaryOperation(
                      Num("5"), "Times",
                      BinaryOperation(Num("4"), "Minus",
                                      BinaryOperation(Num("3"), "Divide", Num("1")))),
                  "Times", Num("2"))

\* A chain of three operators whose middle one is the tightest has been built.
C17_Witness ==
    /\ Built /\ IsChain(SourceExpression)
    /\ Operators(SourceExpression) = <<"op_or", "op_modulo", "op_plus">>
    /\ BuiltExpression.op = "Or"
    /\ BuiltExpression.rhs.op = "Plus"
    /\ BuiltExpression.rhs.lhs.op = "Modulo"

\* The fully left-nested tree of a chain.
RECURSIVE LeftNested(_, _)
LeftNested(operands, operators) ==
    IF operators = << >> THEN operands[1]
    ELSE BinaryOperation(
             LeftNested(SubSeq(operands, 1, Len(operators)),
                        SubSeq(operators, 1, Len(operators) - 1)),
             OperatorOf(operators[Len(operators)]),
             operands[Len(operands)])

OneTier(pair) ==
    \A i, j \in 1..Len(Operators(pair)) : Tier(Operators(pair)[i]) = Tier(Operators(pair)[j])

\* C18: a chain whose operators are all of one tier gives the fully
\* left-nested tree (((a op1 b) op2 c) op3 d).
C18_LeftAssociative ==
    Built /\ IsChain(SourceExpression) /\ OneTier(SourceExpression) =>
        BuiltExpression =
            LeftNested([i \in 1..Len(Operands(SourceExpression)) |->
                           parse_expression(Operands(SourceExpression)[i])],
                       Operators(SourceExpression))

\* a - b + c - d has been built.
C18_Witness ==
    /\ Built /\ IsChain(SourceExpression)
    /\ Operators(SourceExpression) = <<"op_minus", "op_plus", "op_minus">>
    /\ BuiltExpression.op = "Minus"
    /\ BuiltExpression.lhs.op = "Plus"
    /\ BuiltExpression.lhs.lhs.op = "Minus"
    /\ BuiltExpression.rhs = Num("4")

IsTernary(pair) == pair.rule = "ternary_operation"

\* C19: the condition, if_true and if_false of a ternary are each the whole
\* precedence-resolved tree of their chain, and in
\* 5 * $foo < 27 ? 'foo' : $baz + 'bar' the condition is (5 * $foo) < 27 and
\* if_false is $baz + 'bar'.
C19_TernaryLoosest ==
    /\ Built /\ IsTernary(SourceExpression) =>
          /\ BuiltExpression.type = "TernaryOperation"
          /\ BuiltExpression.condition = ExpectedTree(SourceExpression.inner[1])
          /\ BuiltExpression.if_true = ExpectedTree(SourceExpression.inner[2])
          /\ BuiltExpression.if_false = ExpectedTree(SourceExpression.inner[3])
    /\ Built /\ SourceExpression = TernaryExample =>
          /\ BuiltExpression.condition =
                BinaryOperation(
                    BinaryOperation(Integer(<<"5">>), "Times",
                                    DataReference(Referent("Variable", <<"f", "o", "o">>), << >>)),
                    "Less", Integer(<<"2", "7">>))
          /\ BuiltExpression.if_true = String(<<"f", "o", "o">>)
          /\ BuiltExpression.if_false =
                BinaryOperation(DataReference(Referent("Variable", <<"b", "a", "z">>), << >>),
                                "Plus", String(<<"b", "a", "r">>))

\* A ternary whose three parts are chains of different operators has been built.
C19_Witness ==
    /\ Built /\ IsTernary(SourceExpression)
    /\ BuiltExpression.type = "TernaryOperation"
    /\ BuiltExpression.condition.type = "BinaryOperation"
    /\ BuiltExpression.condition.op = "Less"
    /\ BuiltExpression.if_true.type = "BinaryOperation"
    /\ BuiltExpression.if_true.op = "Times"
    /\ BuiltExpression.if_false.type = "BinaryOperation"
    /\ BuiltExpression.if_false.op = "Plus"

IsReference(pair) == pair.rule = "reference"
SourceSteps(pair) == Tail(pair.inner)
StepKind(rule) ==
    CASE rule = "dotted_reference" -> "Dotted"
      [] rule = "question_dotted_reference" -> "QuestionDotted"
      [] rule = "bracketed_reference" -> "Bracketed"
      [] rule = "question_bracketed_reference" -> "QuestionBracketed"

\* The key or index expression a step of the source names.
StepOperand(step) ==
    IF step.rule \in {"dotted_reference", "question_dotted_reference"}
    THEN step.inner[1].inner[1].str
    ELSE parse_expression(step.inner[1])

BuiltOperand(reference) ==
    IF reference.type \in {"Dotted", "QuestionDotted"}
    THEN reference.key.value
    ELSE reference.expression

\* C20: a DataReference has the referent of the source (Variable for $name,
\* Injected for $ij.name) and one reference per chained step of the source,
\* in source order, each of the step's own kind and with the step's key or
\* index expression.
C20_ChainPreserved ==
    Built /\ IsReference(SourceExpression) =>
        LET steps == SourceSteps(SourceExpression)
            referent == SourceExpression.inner[1]
        IN  /\ BuiltExpression.type = "DataReference"
            /\ BuiltExpression.referent =
                  Referent(IF referent.rule = "variable" THEN "Variable" ELSE "Injected",
                           referent.inner[1].str)
            /\ Len(BuiltExpression.references) = Len(steps)
            /\ \A i \in 1..Len(steps) :
                  /\ BuiltExpression.references[i].type = StepKind(steps[i].rule)
                  /\ BuiltOperand(BuiltExpression.references[i]) = StepOperand(steps[i])

\* $ij.foo[3 * $baz]?.bar has been built.
C20_Witness ==
    /\ Built /\ SourceExpression = ReferenceExample
    /\ BuiltExpression.referent = Referent("Injected", <<"f", "o", "o">>)
    /\ Len(BuiltExpression.references) = 2
    /\ BuiltExpression.references[1].type = "Bracketed"
    /\ BuiltExpression.references[1].expression.op = "Times"
    /\ BuiltExpression.references[2] =
          KeyReference("QuestionDotted", ReferenceKey("Name", <<"b", "a", "r">>))

\* --------------------------------- claims on soydoc, map literals and print
BuiltTemplate == templates[format_key(NamespaceName, <<"t">>)]
SourceTemplate == input.templates[1]
IsDocSource == SourceTemplate.body = << >>
SourceStatement == SourceTemplate.body[1].inner
IsMapSource == ~IsDocSource /\ SourceStatement.inner[2].inner[1].rule = "map_literal"
IsPrintSource == ~IsDocSource /\ ~IsMapSource

\* C21: soydoc_params has one entry per param line of the soydoc block, in
\* declaration order, required for @param and not required for @param?; a
\* block with no param lines gives the empty list.
C21_SoydocParams ==
    Built /\ IsDocSource =>
        LET doc == SourceTemplate.soydoc
            params == BuiltTemplate.soydoc_params
        IN  /\ Len(params) = Len(doc)
            /\ \A i \in 1..Len(doc) :
                  /\ params[i].name = doc[i].inner[2].str
                  /\ params[i].required = (doc[i].inner[1].rule = "soydoc_required")

\* @param p, then @param? q, then @param? p has been built.
C21_Witness ==
    /\ Built /\ IsDocSource
    /\ BuiltTemplate.soydoc_params =
          <<[name |-> <<"p">>, required |-> TRUE], [name |-> <<"q">>, required |-> FALSE],
            [name |-> <<"p">>, required |-> FALSE]>>

SourceEntries == SourceStatement.inner[2].inner[1].inner
EntryKey(entry) == entry.inner[1].inner[1].inner[1].inner[1].str
EntryValue(entry) == entry.inner[2].inner[1]
LastEntry(entries, k) ==
    entries[CHOOSE i \in 1..Len(entries) :
                /\ EntryKey(entries[i]) = k
                /\ \A j \in (i + 1)..Len(entries) : EntryKey(entries[j]) # k]

\* C22: the Map of a map literal has one entry per distinct key, and the
\* value of a key is the value of its last occurrence in the literal.
C22_MapLastWins ==
    Built /\ IsMapSource =>
        /\ BuiltExpression.type = "Map"
        /\ DOMAIN BuiltExpression.map =
              {EntryKey(SourceEntries[i]) : i \in 1..Len(SourceEntries)}
        /\ \A k \in DOMAIN BuiltExpression.map :
              BuiltExpression.map[k] = parse_expression(EntryValue(LastEntry(SourceEntries, k)))

\* ['k': 1, 'm': 1, 'k': 2] has been built.
C22_Witness ==
    /\ Built /\ IsMapSource
    /\ Len(SourceEntries) = 3
    /\ EntryKey(SourceEntries[1]) = <<"k">> /\ EntryValue(SourceEntries[1]).str = <<"1">>
    /\ EntryKey(SourceEntries[3]) = <<"k">> /\ EntryValue(SourceEntries[3]).str = <<"2">>
    /\ DOMAIN BuiltExpression.map = {<<"k">>, <<"m">>}
    /\ BuiltExpression.map[<<"k">>] = Integer(<<"2">>)

SourceDirectives == SourceStatement.inner[3].inner
DirectiveArguments(pd) == IF Len(pd.inner) < 2 THEN << >> ELSE pd.inner[2].inner
OtherTag(tag) == IF tag = ImplicitTag THEN PrintTag ELSE ImplicitTag
BuiltCommand == BuiltTemplate.body[1].command

\* C26: {expr ...} and {print expr ...} give the same Print command; its
\* directives are those of the source in order, each with its name and its
\* arguments in order, and with no arguments when none are written.
C26_PrintStatement ==
    Built /\ IsPrintSource =>
        /\ BuiltCommand.type = "Print"
        /\ BuiltCommand.expression = parse_expression(SourceStatement.inner[2])
        /\ Len(BuiltCommand.directives) = Len(SourceDirectives)
        /\ \A i \in 1..Len(SourceDirectives) :
              LET args == DirectiveArguments(SourceDirectives[i])
              IN  /\ BuiltCommand.directives[i].name = SourceDirectives[i].inner[1].str
                  /\ BuiltCommand.directives[i].arguments =
                        [j \in 1..Len(args) |-> parse_expression(args[j])]
        /\ BuiltCommand =
              parse_command(PrintStatementPair(OtherTag(SourceStatement.inner[1].str),
                                               SourceStatement.inner[2], SourceDirectives))

\* {$foo.baz |changeNewlineToBr |truncate:8,false} has been built.
C26_Witness ==
    /\ Built /\ IsPrintSource /\ SourceStatement = PrintExample
    /\ Len(BuiltCommand.directives) = 2
    /\ BuiltCommand.directives[1].arguments = << >>
    /\ BuiltCommand.directives[2].name = <<"t", "r", "u", "n", "c", "a", "t", "e">>
    /\ BuiltCommand.directives[2].arguments = <<Integer(<<"8">>), Boolean(FALSE)>>

\* ------------------------------------------------- claims on template bodies
IsContent(tok) == tok.rule \notin Separators
ContentTokens(toks) == SelectSeq(toks, IsContent)

\* The index in toks of its k-th content token.
ContentIndex(toks, k) ==
    CHOOSE i \in 1..Len(toks) :
        IsContent(toks[i]) /\ Len(ContentTokens(SubSeq(toks, 1, i))) = k

Followed(toks, i) == i < Len(toks) /\ toks[i + 1].rule \in Separators

IsLeafChain(pair) ==
    IsChain(pair) /\ \A i \in 1..Len(Operands(pair)) : Operands(pair)[i].rule = "integer"

\* The operands and operators of a tree, left to right.
RECURSIVE InOrder(_)
InOrder(tree) ==
    IF tree.type = "BinaryOperation"
    THEN InOrder(tree.lhs) \o <<tree.op>> \o InOrder(tree.rhs)
    ELSE <<tree>>

RECURSIVE CountOperations(_)
CountOperations(tree) ==
    IF tree.type = "BinaryOperation"
    THEN CountOperations(tree.lhs) + 1 + CountOperations(tree.rhs)
    ELSE 0

\* The chain as written: operand, operator, operand, ...
FlatChain(pair) ==
    [j \in 1..Len(pair.inner) |->
        IF j % 2 = 1 THEN parse_expression(pair.inner[j]) ELSE OperatorOf(pair.inner[j].rule)]

\* C28: the tree built from a chain of n operators lists, left to right, the
\* operands and operators of the chain in their order, each once, and has n
\* BinaryOperation nodes; with no operator the lhs is returned as it is.
C28_ContentKept ==
    Built /\ IsLeafChain(SourceExpression) =>
        /\ InOrder(BuiltExpression) = FlatChain(SourceExpression)
        /\ CountOperations(BuiltExpression) = Len(Operators(SourceExpression))
        /\ build_binary_operation(BuiltExpression, << >>) = BuiltExpression

\* 1 + 2 * 3 - 4 has been built.
C28_Witness ==
    /\ Built /\ IsLeafChain(SourceExpression)
    /\ Operators(SourceExpression) = <<"op_plus", "op_times", "op_minus">>
    /\ InOrder(BuiltExpression) =
          <<Num("1"), "Plus", Num("2"), "Times", Num("3"), "Minus", Num("4")>>
    /\ CountOperations(BuiltExpression) = 3

\* The run of the loop on the chain of the source.
LoopRun(pair) ==
    LET p == pair.inner
    IN  build_binary_operation_loop(
            parse_expression(p[1]),
            [i \in 1..((Len(p) - 1) \div 2) |->
                Some([op |-> parse_binary_operator(p[2 * i]),
                      rhs |-> parse_expression(p[2 * i + 1])])],
            << >>)

\* C29: on a chain of n operators the loop ends after n iterations, the
\* working list being one entry shorter at each, and no unwrap of an entry
\* fails.
C29_LoopTerminates ==
    Built /\ IsChain(SourceExpression) =>
        LET n == Len(Operators(SourceExpression))
            run == LoopRun(SourceExpression)
        IN  /\ ~run.panic
            /\ run.sizes = [i \in 1..n |-> n + 1 - i]
            /\ run.lhs = BuiltExpression

\* A chain of three operators whose last is the tightest has been built: the
\* first iteration folds into the entry before the chosen one.
C29_Witness ==
    /\ Built /\ IsChain(SourceExpression)
    /\ Operators(SourceExpression) = <<"op_or", "op_plus", "op_times">>
    /\ LoopRun(SourceExpression).sizes = <<3, 2, 1>>
    /\ BuiltExpression.rhs.rhs.op = "Times"

\* ------------------------------------------------ claims on render_to_string
ReturnedString(c) == pc[c] = "string"
RenderedInMemory(d) == pc[d] = "done" /\ result[d].kind # "IoError"

\* C30: render_to_string returns Ok exactly when render on a sink that takes
\* every write returns Ok, the String is then the bytes render wrote, and an
\* error is the error of render; it is never a sink or decoding error.
C30_StringAgrees ==
    \A c \in Calls :
        ReturnedString(c) =>
            /\ result[c].kind \in {"Ok", "TemplateNotFound"}
            /\ result[c].kind = "TemplateNotFound" <=> template_name[c] \notin DOMAIN templates
            /\ result[c].kind = "TemplateNotFound" =>
                  result[c] = TemplateNotFound(template_name[c]) /\ writer[c] = << >>
            /\ result[c] = Ok => writer[c] = SoloOutput(Body(c))
            /\ \A d \in Calls :
                  RenderedInMemory(d) /\ template_name[d] = template_name[c] =>
                      result[c] = result[d] /\ writer[c] = writer[d]

\* One call has rendered a joined text with render and the other has got
\* the same text from render_to_string.
C30_Witness ==
    /\ ReturnedString(1) /\ Returned(2)
    /\ template_name[1] = template_name[2]
    /\ result[1] = Ok
    /\ writer[1] = <<"a", " ", "b", "c">>
    /\ writer[2] = writer[1]

\* ------------------------------------------- claims on print and msg output
\* Call 1 has returned from rendering a body of the one node it names.
RenderedOne == pc[1] = "done" /\ Rendering(1) /\ Len(Body(1)) = 1
OnlyCommand == Body(1)[1].command
IsPrintOf(type) ==
    /\ Body(1)[1].type = "Statement"
    /\ OnlyCommand.type = "Print"
    /\ OnlyCommand.expression.type = type

\* C23: rendering a Print statement writes the textual form of the value of
\* its expression: a print of an integer literal with no directive writes the
\* digits of the literal.
C23_PrintWritesValue ==
    RenderedOne /\ IsPrintOf("Integer") /\ OnlyCommand.directives = << >> /\ result[1] = Ok =>
        writer[1] = OnlyCommand.expression.value

IsPluralMsg ==
    /\ Body(1)[1].type = "Statement"
    /\ OnlyCommand.type = "Msg"
    /\ OnlyCommand.body.type = "Plural"

\* The body a plural selects: that of the first case whose literal equals the
\* value of the plural expression, else the default.
SelectedBody(plural) ==
    LET matching == {i \in 1..Len(plural.cases) :
                        plural.cases[i].expression = plural.expression}
    IN  IF matching = {} THEN plural.default
        ELSE plural.cases[CHOOSE i \in matching : \A j \in matching : i <= j].body

\* C24: rendering a plural Msg writes the body of the first case whose
\* integer literal equals the value of the plural expression, and the default
\* body when no case matches.
C24_PluralSelects ==
    RenderedOne /\ IsPluralMsg /\ result[1] = Ok =>
        writer[1] = SoloOutput(SelectedBody(OnlyCommand.body))

\* C25: a reference whose referent has no value is Null: a QuestionDotted
\* or QuestionBracketed step on it gives Null and the render goes on, a
\* Dotted or Bracketed step on it fails the render with TypeMismatch or
\* FieldNotFound.
C25_SafeNavigation ==
    RenderedOne /\ IsPrintOf("DataReference") /\ result[1].kind # "IoError" =>
        LET first == OnlyCommand.expression.references[1]
        IN  IF first.type \in {"QuestionDotted", "QuestionBracketed"}
            THEN result[1] = Ok
            ELSE result[1].kind \in {"TypeMismatch", "FieldNotFound"}

====
